---- MODULE Spec2Model ----
(***************************************************************************)
(* Provider adapters of utils/agents/adapters.py: OpenAIAdapter,           *)
(* LocalAdapter, AnthropicAdapter and GoogleGeminiAdapter.                 *)
(*                                                                         *)
(* Python values are modelled as follows.  A str is a TLA+ string, a list  *)
(* is a sequence, a dict with string keys is a function on strings, and an *)
(* optional value is None (the empty set) or Some(x) (a singleton).        *)
(***************************************************************************)
EXTENDS Integers, Sequences, FiniteSets, TLC

VARIABLES
    genai,      \* TRUE iff `from google import genai` succeeded at import time
    openai,     \* module-level configuration of the openai library
    inst,       \* the adapter objects, by identity
    call,       \* observation of the last constructor or complete() call
    request     \* the complete() call the caller is about to make, if fixed

vars == <<genai, openai, inst, call, request>>

----------------------------------------------------------------------------
\* Bounds of the model.

\* longest conversation passed to complete()
MaxTurns == 2
\* longest content list of an Anthropic response
MaxBlocks == 2
\* most candidates of a Gemini response / choices of an OpenAI response
MaxCandidates == 2
\* most parts of a Gemini response, over all its candidates
MaxParts == 2
\* number of adapter objects alive in one process
NumInst == 2

----------------------------------------------------------------------------
\* Optional values, strings and dicts.

None == {}
Some(x) == {x}
Get(o) == CHOOSE x \in o : TRUE

SeqsUpTo(S, n) == UNION {[1..k -> S] : k \in 0..n}

EmptyDict == [k \in {} |-> None]

\* dict.update: the right operand wins on a shared key
Update(params, kwargs) ==
    [k \in (DOMAIN params) \cup (DOMAIN kwargs) |->
        IF k \in DOMAIN kwargs THEN kwargs[k] ELSE params[k]]

RECURSIVE Join(_, _)
\* sep.join(texts)
Join(sep, texts) ==
    IF texts = <<>> THEN ""
    ELSE IF Len(texts) = 1 THEN texts[1]
    ELSE texts[1] \o sep \o Join(sep, Tail(texts))

----------------------------------------------------------------------------
\* Chat turns as the caller passes them.

\* "tool" stands for any unrecognised role, "None" for a turn without a role
\* (m.get('role') is None)
Roles == {"system", "user", "assistant", "tool", "None"}

TextBlock(s) == [type |-> "text", text |-> s]
ImageBlock == [type |-> "image_url", text |-> ""]

StrContent(s) == [kind |-> "str", str |-> s, blocks |-> <<>>]
BlockContent(b) == [kind |-> "blocks", str |-> "", blocks |-> b]

Contents ==
    { StrContent("a"), StrContent(""),
      BlockContent(<<TextBlock("b")>>), BlockContent(<<ImageBlock>>) }

Turns == [role : Roles, content : Contents]

Conversations == SeqsUpTo(Turns, MaxTurns)

Turn(role, s) == [role |-> role, content |-> StrContent(s)]

\* the text-typed blocks of a turn's content, as vendor text blocks
TextBlocksOf(content) ==
    IF content.kind = "str"
    THEN IF content.str = "" THEN <<>> ELSE <<TextBlock(content.str)>>
    ELSE SelectSeq(content.blocks, LAMBDA b : b.type = "text")

\* the plain text of a turn's content
ContentText(content) ==
    Join("\n", [k \in 1..Len(TextBlocksOf(content)) |-> TextBlocksOf(content)[k].text])

----------------------------------------------------------------------------
\* utils/agents/messages.py (normalize_messages, to_antrophic,
\* to_gemini_messages), as sections 4.1 to 4.3 of the specification
\* describe it.

ValidRoles == {"system", "user", "assistant"}

\* the content with the system text put in front of it
PrependText(content, s) ==
    IF content.kind = "str"
    THEN StrContent(s \o "\n" \o content.str)
    ELSE BlockContent(<<TextBlock(s)>> \o content.blocks)

RECURSIVE MergeSystem(_, _)
\* the non-system turns, the pending system texts being prepended to the
\* next user turn; `pending` is what no user turn has taken yet
MergeSystem(ms, pending) ==
    IF ms = <<>> THEN [turns |-> <<>>, pending |-> pending]
    ELSE LET m == Head(ms) IN
        IF m.role = "system"
        THEN MergeSystem(Tail(ms), Append(pending, ContentText(m.content)))
        ELSE IF m.role = "user" /\ pending # <<>>
        THEN LET r == MergeSystem(Tail(ms), <<>>) IN
             [turns |-> <<[role |-> "user",
                           content |-> PrependText(m.content, Join("\n", pending))]>>
                        \o r.turns,
              pending |-> r.pending]
        ELSE LET r == MergeSystem(Tail(ms), pending) IN
             [turns |-> <<m>> \o r.turns, pending |-> r.pending]

normalize_messages(messages, allow_system, merge_system_into_user, keep_system) ==
    LET valid == SelectSeq(messages, LAMBDA m : m.role \in ValidRoles)
        systems == SelectSeq(valid, LAMBDA m : m.role = "system")
        sysText == Join("\n", [k \in 1..Len(systems) |-> ContentText(systems[k].content)])
    IN  IF merge_system_into_user
        THEN LET r == MergeSystem(valid, <<>>)
                 merged == IF r.pending = <<>> THEN r.turns
                           ELSE <<Turn("user", Join("\n", r.pending))>> \o r.turns
             IN  IF keep_system /\ systems # <<>>
                 THEN <<Turn("system", sysText)>> \o merged
                 ELSE merged
        ELSE IF allow_system THEN valid
        ELSE SelectSeq(valid, LAMBDA m : m.role # "system")

\* the vendor content blocks of one turn; unsupported blocks give nothing
to_antrophic(m) == TextBlocksOf(m.content)

GeminiRole(role) == IF role = "assistant" THEN "model" ELSE "user"

RECURSIVE GeminiContents(_)
GeminiContents(ms) ==
    IF ms = <<>> THEN <<>>
    ELSE LET m == Head(ms)
             blocks == TextBlocksOf(m.content)
             parts == [k \in 1..Len(blocks) |-> [text |-> blocks[k].text]]
         IN  IF m.role \in {"user", "assistant"} /\ parts # <<>>
             THEN <<[role |-> GeminiRole(m.role), parts |-> parts]>>
                  \o GeminiContents(Tail(ms))
             ELSE GeminiContents(Tail(ms))

to_gemini_messages(messages) ==
    LET systems == SelectSeq(messages, LAMBDA m : m.role = "system")
    IN  [system_instruction |->
            IF systems = <<>> THEN None
            ELSE Some(Join("\n", [k \in 1..Len(systems) |->
                                     ContentText(systems[k].content)])),
         contents |-> GeminiContents(messages)]

----------------------------------------------------------------------------
\* AnthropicAdapter._split

EmptyText == <<TextBlock("")>>

\* variant: the empty block list is passed on as it is
KeepBlocks(blocks) == blocks

\* `blocks or [{'type': 'text', 'text': ''}]`
OrEmptyText(blocks) == IF blocks = <<>> THEN EmptyText ELSE blocks

\* variant: every role but 'assistant' is taken for 'user'
HistoryRoleUserDefault(role) == IF role = "assistant" THEN "assistant" ELSE "user"

\* `'user' if role == 'user' else 'assistant'`
HistoryRole(role) == IF role = "user" THEN "user" ELSE "assistant"

\* variant: the entry is put in front
PrependEntry(history, entry) == <<entry>> \o history

\* `history.append({...})`
AppendEntry(history, entry) == Append(history, entry)

\* variant: the first system turn is kept
KeepFirstSystem(system, blocks) ==
    IF system = None THEN Some(IF blocks = <<>> THEN EmptyText ELSE blocks) ELSE system

\* `system = blocks or [...]`: the assignment replaces what was there
AssignSystem(system, blocks) == Some(OrEmptyText(blocks))

\* one iteration of `for m in messages`
SplitStep(acc, m) ==
    LET role == m.role
        blocks == to_antrophic(m)
    IN  IF role = "system"
        THEN [acc EXCEPT !.system = AssignSystem(acc.system, blocks)]
        ELSE [acc EXCEPT !.history =
                AppendEntry(acc.history,
                            [role |-> HistoryRole(role),
                             content |-> OrEmptyText(blocks)])]

RECURSIVE SplitLoop(_, _)
SplitLoop(acc, messages) ==
    IF messages = <<>> THEN acc
    ELSE SplitLoop(SplitStep(acc, Head(messages)), Tail(messages))

_split(messages) == SplitLoop([system |-> None, history |-> <<>>], messages)

----------------------------------------------------------------------------
\* Text extraction from the vendor responses.

\* resp['choices'][0]['message']['content']
OpenAIText(resp) == resp.choices[1].message.content

\* variant: the text of every block, whatever its type
AnthropicTextAnyType(resp) ==
    Join("", [k \in 1..Len(resp.content) |-> resp.content[k].text])

\* ''.join(c.text for c in resp.content if getattr(c, 'type', None) == 'text')
AnthropicText(resp) ==
    LET texts == SelectSeq(resp.content, LAMBDA c : c.type = "text")
    IN  Join("", [k \in 1..Len(texts) |-> texts[k].text])

\* variant: `if x is not None:`
Present(o) == o # None

\* `if x:` on an optional str
Truthy(o) == o # None /\ Get(o) # ""

\* `getattr(content, 'parts', []) or []`
PartsOf(candidate) ==
    IF candidate.content = None THEN <<>> ELSE Get(candidate.content).parts

\* the inner loop: the truthy texts of one candidate's parts
PartTexts(parts) ==
    LET kept == SelectSeq(parts, LAMBDA part : Truthy(part.text))
    IN  [k \in 1..Len(kept) |-> Get(kept[k].text)]

RECURSIVE CandidateTexts(_)
\* the outer loop over the candidates
CandidateTexts(candidates) ==
    IF candidates = <<>> THEN <<>>
    ELSE PartTexts(PartsOf(Head(candidates))) \o CandidateTexts(Tail(candidates))

\* '\n'.join(texts)
JoinTexts(texts) == Join("\n", texts)

GeminiText(resp) ==
    IF Truthy(resp.text) THEN Get(resp.text)
    ELSE JoinTexts(CandidateTexts(resp.candidates))

----------------------------------------------------------------------------
\* Inputs of the constructors and of complete().

ApiKeys == {Some("sk-1"), Some("sk-2")}
Organizations == {None, Some("org-1")}
BaseUrls == {None, Some("https://proxy.example/v1")}
GeminiKeys == {None, Some(""), Some("sk-1")}

\* a positive max_output_tokens
TokenLimits == {16}

\* **kwargs: any keywords but the parameters of complete() themselves
Kwargs ==
    { EmptyDict,
      [max_tokens |-> 7],
      [model |-> "other-model"],
      [system |-> Some(<<TextBlock("s")>>)],
      [system_instruction |-> Some("s")],
      [temperature |-> 0] }

\* responses of openai.ChatCompletion.create
OpenAIResponses ==
    [choices : SeqsUpTo([message : [content : {"a", "b"}]], MaxCandidates)]

\* responses of anthropic's messages.create; type "None" is a block without
\* a type attribute
AnthropicBlocks ==
    [type : {"text"}, text : {"", "a", "b"}]
        \cup [type : {"tool_use", "None"}, text : {"x"}]

AnthropicResponses == [content : SeqsUpTo(AnthropicBlocks, MaxBlocks)]

\* responses of genai's generate_content
GeminiParts == [text : {None, Some(""), Some("a"), Some("b")}]

CandidatesUpTo(n) ==
    {[content |-> None]}
        \cup {[content |-> Some([parts |-> p])] : p \in SeqsUpTo(GeminiParts, n)}

RECURSIVE CandidateSeqs(_, _)
\* the lists of at most `slots` candidates that hold at most `budget` parts
CandidateSeqs(slots, budget) ==
    {<<>>} \cup
    IF slots = 0 THEN {}
    ELSE UNION { { <<c>> \o rest :
                     rest \in CandidateSeqs(slots - 1, budget - Len(PartsOf(c))) } :
                 c \in CandidatesUpTo(budget) }

GeminiResponses ==
    [text : {None, Some(""), Some("t")},
     candidates : CandidateSeqs(MaxCandidates, MaxParts)]

----------------------------------------------------------------------------
\* State.

NoArgs == [api_key |-> None, organization |-> None, base_url |-> None]

NoInst ==
    [cls |-> "none", model |-> "", allow_system |-> FALSE, client |-> None,
     given |-> NoArgs]

\* op: "none", "new" or "complete"; raised: the exception class or "None";
\* client: a vendor client object was created; vendor: the vendor call was
\* invoked; usable: the turns left after normalization / conversion;
\* params: the keyword arguments of the vendor call; sent: the credentials
\* and endpoint the vendor call went out with; resp: what the vendor
\* answered; result: the str complete() returned
NoCall ==
    [op |-> "none", cls |-> "none", self |-> 0, args |-> NoArgs,
     messages |-> <<>>, kwargs |-> EmptyDict, raised |-> "None",
     client |-> FALSE, vendor |-> FALSE, usable |-> 0, params |-> EmptyDict,
     sent |-> None, resp |-> None, result |-> None]

\* the openai library before any adapter is built
OpenAIDefaults ==
    [api_key |-> None, organization |-> None,
     api_base |-> Some("https://api.openai.com/v1")]

----------------------------------------------------------------------------
\* Constructors.

Args(api_key, organization, base_url) ==
    [api_key |-> api_key, organization |-> organization, base_url |-> base_url]

\* the module-level assignments of OpenAIAdapter.__init__
OpenAIConfigure(cfg, api_key, organization, base_url) ==
    [api_key |-> api_key,
     organization |-> IF Truthy(organization) THEN organization ELSE cfg.organization,
     api_base |-> IF Truthy(base_url) THEN base_url ELSE cfg.api_base]

OpenAIObject(api_key, model, organization, base_url) ==
    [cls |-> "OpenAIAdapter", model |-> model, allow_system |-> TRUE,
     client |-> None, given |-> Args(api_key, organization, base_url)]

LocalObject(base_url, model, api_key, allow_system) ==
    [OpenAIObject(api_key, model, None, base_url) EXCEPT
        !.cls = "LocalAdapter", !.allow_system = allow_system]

AnthropicObject(api_key, model) ==
    [cls |-> "AnthropicAdapter", model |-> model, allow_system |-> FALSE,
     client |-> api_key, given |-> Args(api_key, None, None)]

GeminiObject(api_key, model) ==
    [cls |-> "GoogleGeminiAdapter", model |-> model, allow_system |-> FALSE,
     client |-> api_key, given |-> Args(api_key, None, None)]

NewOpenAIAdapter(self, api_key, model, organization, base_url) ==
    /\ inst[self].cls = "none"
    /\ openai' = OpenAIConfigure(openai, api_key, organization, base_url)
    /\ inst' = [inst EXCEPT ![self] = OpenAIObject(api_key, model, organization, base_url)]
    /\ call' = [NoCall EXCEPT !.op = "new", !.cls = "OpenAIAdapter", !.self = self,
                              !.args = Args(api_key, organization, base_url)]
    /\ UNCHANGED genai

NewLocalAdapter(self, base_url, model, api_key, allow_system) ==
    /\ inst[self].cls = "none"
    /\ openai' = OpenAIConfigure(openai, api_key, None, base_url)
    /\ inst' = [inst EXCEPT ![self] = LocalObject(base_url, model, api_key, allow_system)]
    /\ call' = [NoCall EXCEPT !.op = "new", !.cls = "LocalAdapter", !.self = self,
                              !.args = Args(api_key, None, base_url)]
    /\ UNCHANGED genai

NewAnthropicAdapter(self, api_key, model) ==
    /\ inst[self].cls = "none"
    /\ inst' = [inst EXCEPT ![self] = AnthropicObject(api_key, model)]
    /\ call' = [NoCall EXCEPT !.op = "new", !.cls = "AnthropicAdapter", !.self = self,
                              !.args = Args(api_key, None, None), !.client = TRUE]
    /\ UNCHANGED <<genai, openai>>

\* variant: the API key is checked before the library
GeminiInitErrorKeyFirst(lib, api_key) ==
    IF api_key = None \/ Get(api_key) = "" THEN "ValueError"
    ELSE IF ~lib THEN "ImportError"
    ELSE "None"

\* the exception GoogleGeminiAdapter.__init__ raises, "None" if it returns
GeminiInitError(lib, api_key) ==
    IF ~lib THEN "ImportError"
    ELSE IF ~Truthy(api_key) THEN "ValueError"
    ELSE "None"

NewGoogleGeminiAdapter(self, api_key, model) ==
    LET err == GeminiInitError(genai, api_key) IN
    /\ inst[self].cls = "none"
    /\ inst' = IF err = "None"
               THEN [inst EXCEPT ![self] = GeminiObject(api_key, model)]
               ELSE inst
    /\ call' = [NoCall EXCEPT !.op = "new", !.cls = "GoogleGeminiAdapter",
                              !.self = self, !.args = Args(api_key, None, None),
                              !.raised = err, !.client = (err = "None")]
    /\ UNCHANGED <<genai, openai>>

----------------------------------------------------------------------------
\* complete()

Begin(self, messages, kwargs) ==
    [NoCall EXCEPT !.op = "complete", !.cls = inst[self].cls, !.self = self,
                   !.messages = messages, !.kwargs = kwargs]

EmptyError(c) == [c EXCEPT !.raised = "ValueError"]

\* params, params.update(kwargs), openai.ChatCompletion.create(**params) and
\* the return of the first choice; the call goes out with the library's
\* module-level configuration
ChatCompletionCreate(c, model, norm_messages, max_output_tokens, resp) ==
    LET params == Update([model |-> model, messages |-> norm_messages,
                          max_tokens |-> max_output_tokens], c.kwargs)
    IN  [c EXCEPT !.usable = Len(norm_messages), !.vendor = TRUE,
                  !.params = params, !.sent = Some(openai), !.resp = Some(resp),
                  !.raised = IF resp.choices = <<>> THEN "IndexError" ELSE "None",
                  !.result = IF resp.choices = <<>> THEN None
                             ELSE Some(OpenAIText(resp))]

OpenAIComplete(self, messages, max_output_tokens, kwargs, resp) ==
    LET norm_messages ==
            normalize_messages(messages, inst[self].allow_system, FALSE, FALSE)
        c == Begin(self, messages, kwargs)
    IN  /\ inst[self].cls = "OpenAIAdapter"
        /\ call' = IF norm_messages = <<>> THEN EmptyError(c)
                   ELSE ChatCompletionCreate(c, inst[self].model, norm_messages,
                                             max_output_tokens, resp)
        /\ UNCHANGED <<genai, openai, inst>>

LocalComplete(self, messages, max_output_tokens, kwargs, resp) ==
    LET norm_messages ==
            normalize_messages(messages, TRUE, TRUE, inst[self].allow_system)
        c == Begin(self, messages, kwargs)
    IN  /\ inst[self].cls = "LocalAdapter"
        /\ call' = IF norm_messages = <<>> THEN EmptyError(c)
                   ELSE ChatCompletionCreate(c, inst[self].model, norm_messages,
                                             max_output_tokens, resp)
        /\ UNCHANGED <<genai, openai, inst>>

\* the credentials a per-instance client sends
ClientConfig(self) ==
    [api_key |-> inst[self].client, organization |-> None, api_base |-> None]

AnthropicComplete(self, messages, max_output_tokens, kwargs, resp) ==
    LET split == _split(messages)
        params == Update([model |-> inst[self].model, system |-> split.system,
                          messages |-> split.history,
                          max_tokens |-> max_output_tokens], kwargs)
        c == Begin(self, messages, kwargs)
    IN  /\ inst[self].cls = "AnthropicAdapter"
        /\ call' = [c EXCEPT !.usable = Len(split.history), !.vendor = TRUE,
                             !.params = params, !.sent = Some(ClientConfig(self)),
                             !.resp = Some(resp),
                             !.result = Some(AnthropicText(resp))]
        /\ UNCHANGED <<genai, openai, inst>>

\* the keywords GenerateContentConfig(...) is given by name; a key of
\* **kwargs among them is a TypeError (multiple values for a keyword)
ConfigKeywords == {"max_output_tokens", "system_instruction"}

GeminiComplete(self, messages, max_output_tokens, kwargs, resp) ==
    LET conv == to_gemini_messages(messages)
        c == [Begin(self, messages, kwargs) EXCEPT !.usable = Len(conv.contents)]
        config == Update([max_output_tokens |-> max_output_tokens,
                          system_instruction |-> conv.system_instruction], kwargs)
    IN  /\ inst[self].cls = "GoogleGeminiAdapter"
        /\ call' =
             IF conv.contents = <<>> THEN EmptyError(c)
             ELSE IF (DOMAIN kwargs) \cap ConfigKeywords # {}
             THEN [c EXCEPT !.raised = "TypeError"]
             ELSE [c EXCEPT !.vendor = TRUE,
                            !.params = [model |-> inst[self].model,
                                        contents |-> conv.contents,
                                        config |-> config],
                            !.sent = Some(ClientConfig(self)),
                            !.resp = Some(resp),
                            !.result = Some(GeminiText(resp))]
        /\ UNCHANGED <<genai, openai, inst>>

----------------------------------------------------------------------------
\* Specification of a process that builds adapters and calls them.

Ids == 1..NumInst

ProbeConversations == {<<>>, <<Turn("user", "a")>>, <<Turn("system", "a")>>}

OpenAIReply == [choices |-> <<[message |-> [content |-> "a"]]>>]
AnthropicReply == [content |-> <<TextBlock("a")>>]
GeminiReply == [text |-> Some("t"), candidates |-> <<>>]

Init ==
    /\ genai \in BOOLEAN
    /\ openai = OpenAIDefaults
    /\ inst = [id \in Ids |-> NoInst]
    /\ call = NoCall
    /\ request = None

CreateOpenAI ==
    /\ \E self \in DOMAIN inst, api_key \in ApiKeys,
          organization \in Organizations, base_url \in BaseUrls :
          NewOpenAIAdapter(self, api_key, "gpt-4o", organization, base_url)
    /\ UNCHANGED request

CreateLocal ==
    /\ \E self \in DOMAIN inst, allow_system \in BOOLEAN :
          NewLocalAdapter(self, Some("http://localhost:11434/v1"), "llama3",
                          Some("dummy"), allow_system)
    /\ UNCHANGED request

CreateAnthropic ==
    /\ \E self \in DOMAIN inst, api_key \in ApiKeys :
          NewAnthropicAdapter(self, api_key, "claude-4-sonnet-20250514")
    /\ UNCHANGED request

CreateGemini ==
    /\ \E self \in DOMAIN inst, api_key \in GeminiKeys :
          NewGoogleGeminiAdapter(self, api_key, "gemini-2.5-flash")
    /\ UNCHANGED request

CallOpenAI ==
    /\ \E self \in DOMAIN inst, messages \in ProbeConversations, n \in TokenLimits :
          OpenAIComplete(self, messages, n, EmptyDict, OpenAIReply)
    /\ UNCHANGED request

CallLocal ==
    /\ \E self \in DOMAIN inst, messages \in ProbeConversations, n \in TokenLimits :
          LocalComplete(self, messages, n, EmptyDict, OpenAIReply)
    /\ UNCHANGED request

CallAnthropic ==
    /\ \E self \in DOMAIN inst, messages \in ProbeConversations, n \in TokenLimits :
          AnthropicComplete(self, messages, n, EmptyDict, AnthropicReply)
    /\ UNCHANGED request

CallGemini ==
    /\ \E self \in DOMAIN inst, messages \in ProbeConversations, n \in TokenLimits :
          GeminiComplete(self, messages, n, EmptyDict, GeminiReply)
    /\ UNCHANGED request

Next ==
    \/ CreateOpenAI
    \/ CreateLocal
    \/ CreateAnthropic
    \/ CreateGemini
    \/ CallOpenAI
    \/ CallLocal
    \/ CallAnthropic
    \/ CallGemini

Spec == Init /\ [][Next]_vars

----------------------------------------------------------------------------
\* Specifications of a process that has built the adapters and makes one
\* call: any conversation with any options, or any vendor response.

Built ==
    << OpenAIObject(Some("sk-1"), "gpt-4o", None, None),
       LocalObject(Some("http://localhost:11434/v1"), "llama3", Some("dummy"), FALSE),
       LocalObject(Some("http://localhost:11434/v1"), "llama3", Some("dummy"), TRUE),
       AnthropicObject(Some("sk-1"), "claude-4-sonnet-20250514"),
       GeminiObject(Some("sk-1"), "gemini-2.5-flash") >>

InitBuilt ==
    /\ genai = TRUE
    /\ openai = OpenAIConfigure(
                    OpenAIConfigure(OpenAIDefaults, Some("sk-1"), None, None),
                    Some("dummy"), None, Some("http://localhost:11434/v1"))
    /\ inst = Built
    /\ call = NoCall

Replies == [openai |-> OpenAIReply, anthropic |-> AnthropicReply, gemini |-> GeminiReply]

Request(messages, max_output_tokens, kwargs, replies) ==
    [messages |-> messages, max_output_tokens |-> max_output_tokens,
     kwargs |-> kwargs, replies |-> replies]

\* the requested call, made on one of the adapters
RequestOpenAI ==
    /\ request # None
    /\ request' = None
    /\ \E self \in DOMAIN inst :
          LET r == Get(request) IN
          OpenAIComplete(self, r.messages, r.max_output_tokens, r.kwargs,
                         r.replies.openai)

RequestLocal ==
    /\ request # None
    /\ request' = None
    /\ \E self \in DOMAIN inst :
          LET r == Get(request) IN
          LocalComplete(self, r.messages, r.max_output_tokens, r.kwargs,
                        r.replies.openai)

RequestAnthropic ==
    /\ request # None
    /\ request' = None
    /\ \E self \in DOMAIN inst :
          LET r == Get(request) IN
          AnthropicComplete(self, r.messages, r.max_output_tokens, r.kwargs,
                            r.replies.anthropic)

RequestGemini ==
    /\ request # None
    /\ request' = None
    /\ \E self \in DOMAIN inst :
          LET r == Get(request) IN
          GeminiComplete(self, r.messages, r.max_output_tokens, r.kwargs,
                         r.replies.gemini)

NextRequest ==
    \/ RequestOpenAI
    \/ RequestLocal
    \/ RequestAnthropic
    \/ RequestGemini

InitConversations ==
    /\ InitBuilt
    /\ \E messages \in Conversations, n \in TokenLimits, kwargs \in Kwargs :
          request = Some(Request(messages, n, kwargs, Replies))

SpecConversations == InitConversations /\ [][NextRequest]_vars

ProbeConversation == <<Turn("user", "a")>>

ReplySets ==
    {[Replies EXCEPT !.openai = r] : r \in OpenAIResponses}
        \cup {[Replies EXCEPT !.anthropic = r] : r \in AnthropicResponses}
        \cup {[Replies EXCEPT !.gemini = r] : r \in GeminiResponses}

InitResponses ==
    /\ InitBuilt
    /\ \E n \in TokenLimits, replies \in ReplySets :
          request = Some(Request(ProbeConversation, n, EmptyDict, replies))

SpecResponses == InitResponses /\ [][NextRequest]_vars

----------------------------------------------------------------------------
\* Properties.

Completed(cls) == call.op = "complete" /\ call.cls = cls

Sent(cls) == Completed(cls) /\ call.vendor

\* the caller's turns that are not system turns, and those that are
NonSystem(messages) == SelectSeq(messages, LAMBDA m : m.role # "system")
SystemOnly(messages) == SelectSeq(messages, LAMBDA m : m.role = "system")

\* what the Anthropic vendor call was given
History == call.params.messages
SystemSent == call.params.system

\* the options of the vendor call that the caller's keywords are merged into
Options == IF call.cls = "GoogleGeminiAdapter" THEN call.params.config ELSE call.params

\* C1: whenever normalization or conversion leaves no usable turn, complete()
\* raises the validation error and the vendor call is not invoked.
C1_EmptyConversationRejected ==
    (call.op = "complete" /\ call.usable = 0)
        => (call.raised = "ValueError" /\ ~call.vendor)

\* C2: a complete() call that passes validation reaches the vendor with the
\* caller's value for every caller option, whatever adapter-supplied
\* parameter the option collides with; a collision never makes it fail.
C2_CallerOptionsWin ==
    (call.op = "complete" /\ call.raised # "ValueError")
        => /\ call.vendor
           /\ call.raised = "None"
           /\ \A k \in DOMAIN call.kwargs : Options[k] = call.kwargs[k]

\* C3, as stated: every non-system turn becomes a history entry with role
\* 'assistant' only when the turn's role is 'assistant', and 'user' for any
\* other role.
C3_OtherRolesBecomeUser ==
    Sent("AnthropicAdapter")
        => /\ Len(History) = Len(NonSystem(call.messages))
           /\ \A k \in 1..Len(History) :
                History[k].role =
                    IF NonSystem(call.messages)[k].role = "assistant"
                    THEN "assistant" ELSE "user"

\* C3, amended: every non-system turn becomes a history entry with role
\* 'user' only when the turn's role is 'user', and 'assistant' for any other
\* role (assistant, unknown or missing).
C3_OtherRolesBecomeAssistant ==
    Sent("AnthropicAdapter")
        => /\ Len(History) = Len(NonSystem(call.messages))
           /\ \A k \in 1..Len(History) :
                /\ History[k].role \in {"user", "assistant"}
                /\ History[k].role = "user"
                      <=> NonSystem(call.messages)[k].role = "user"

C3_Witness ==
    /\ Sent("AnthropicAdapter")
    /\ \E k \in 1..Len(call.messages) : call.messages[k].role \in {"tool", "None"}
    /\ \E k \in 1..Len(History) : History[k].role = "assistant"

\* C4: for a conversation with at most one system turn, the history has one
\* entry per non-system turn, in the input order of those turns, and the
\* system value is None iff the input has no system turn.
C4_HistoryMirrorsNonSystemTurns ==
    (Sent("AnthropicAdapter") /\ Len(SystemOnly(call.messages)) <= 1
        /\ "system" \notin DOMAIN call.kwargs)
        => /\ Len(History) = Len(NonSystem(call.messages))
           /\ \A k \in 1..Len(History) :
                \/ History[k].content = to_antrophic(NonSystem(call.messages)[k])
                \/ /\ to_antrophic(NonSystem(call.messages)[k]) = <<>>
                   /\ History[k].content = <<TextBlock("")>>
           /\ (SystemSent = None) <=> (SystemOnly(call.messages) = <<>>)

C4_Witness ==
    /\ Sent("AnthropicAdapter")
    /\ "system" \notin DOMAIN call.kwargs
    /\ Len(call.messages) = 2
    /\ Len(History) = 2
    /\ History[1].content = <<TextBlock("a")>>
    /\ History[2].content = <<TextBlock("b")>>

\* C9: every history entry has a non-empty block list and so has a non-null
\* system value; a turn whose conversion is empty stays at its position with
\* exactly one empty text block, and no turn is removed.
C9_ContentNeverEmpty ==
    (Sent("AnthropicAdapter") /\ "system" \notin DOMAIN call.kwargs)
        => /\ Len(History) = Len(NonSystem(call.messages))
           /\ \A k \in 1..Len(History) :
                /\ History[k].content # <<>>
                /\ to_antrophic(NonSystem(call.messages)[k]) = <<>>
                      => History[k].content = <<[type |-> "text", text |-> ""]>>
           /\ SystemSent # None => Get(SystemSent) # <<>>
           /\ (/\ SystemOnly(call.messages) # <<>>
               /\ \A k \in 1..Len(SystemOnly(call.messages)) :
                     to_antrophic(SystemOnly(call.messages)[k]) = <<>>)
                 => SystemSent = Some(<<[type |-> "text", text |-> ""]>>)

C9_Witness ==
    /\ Sent("AnthropicAdapter")
    /\ "system" \notin DOMAIN call.kwargs
    /\ Len(call.messages) = 2
    /\ call.messages[1].role = "user"
    /\ call.messages[1].content = BlockContent(<<ImageBlock>>)
    /\ call.messages[2].role = "assistant"
    /\ History[1].content = <<TextBlock("")>>

\* C10: complete() hands the caller's raw messages to _split, so several
\* system turns can reach it; the system value sent is then the blocks of
\* the last system turn only, and no system turn appears in the history,
\* which holds every other raw turn.
C10_LastSystemTurnWins ==
    (Sent("AnthropicAdapter") /\ "system" \notin DOMAIN call.kwargs
        /\ SystemOnly(call.messages) # <<>>)
        => LET systems == SystemOnly(call.messages)
               last == to_antrophic(systems[Len(systems)])
           IN  /\ SystemSent = Some(IF last = <<>> THEN <<TextBlock("")>> ELSE last)
               /\ Len(History) = Len(call.messages) - Len(systems)
               /\ \A k \in 1..Len(History) : History[k].role # "system"

C10_Witness ==
    /\ Sent("AnthropicAdapter")
    /\ "system" \notin DOMAIN call.kwargs
    /\ Len(call.messages) = 2
    /\ call.messages[1] = Turn("system", "a")
    /\ call.messages[2] = [role |-> "system", content |-> BlockContent(<<TextBlock("b")>>)]
    /\ SystemSent = Some(<<TextBlock("b")>>)
    /\ History = <<>>

RECURSIVE AllParts(_)
\* the parts of all candidates, in candidate order then part order
AllParts(candidates) ==
    IF candidates = <<>> THEN <<>>
    ELSE (IF Head(candidates).content = None THEN <<>>
          ELSE Get(Head(candidates).content).parts)
         \o AllParts(Tail(candidates))

\* the texts of the parts whose text is not among `skipped`
TextsExcept(parts, skipped) ==
    LET kept == SelectSeq(parts, LAMBDA part : part.text \notin skipped)
    IN  [k \in 1..Len(kept) |-> Get(kept[k].text)]

\* C5, as stated: the top-level text whenever it is present; otherwise all
\* text parts of all candidates, joined by a newline.
C5_TopLevelTextWheneverPresent ==
    Sent("GoogleGeminiAdapter")
        => LET r == Get(call.resp) IN
           call.result =
               Some(IF r.text # None THEN Get(r.text)
                    ELSE Join("\n", TextsExcept(AllParts(r.candidates), {None})))

\* C5, amended: the top-level text whenever it is present and not empty;
\* otherwise the non-empty text parts of all candidates, in candidate order
\* then part order, joined by a single newline; the empty string when there
\* is no candidate or no non-empty text part.
C5_TopLevelTextWhenNotEmpty ==
    Sent("GoogleGeminiAdapter")
        => LET r == Get(call.resp)
               texts == TextsExcept(AllParts(r.candidates), {None, Some("")})
           IN  /\ r.text \notin {None, Some("")} => call.result = r.text
               /\ r.text \in {None, Some("")} =>
                    /\ call.result = Some(Join("\n", texts))
                    /\ texts = <<>> => call.result = Some("")

C5_Witness ==
    /\ Sent("GoogleGeminiAdapter")
    /\ Get(call.resp).text = None
    /\ Get(call.resp).candidates =
          <<[content |-> Some([parts |-> <<[text |-> Some("a")], [text |-> Some("b")]>>])]>>
    /\ call.result = Some("a\nb")

RECURSIVE ConcatTextBlocks(_)
\* the texts of the text-typed blocks, one after the other
ConcatTextBlocks(content) ==
    IF content = <<>> THEN ""
    ELSE (IF Head(content).type = "text" THEN Head(content).text ELSE "")
         \o ConcatTextBlocks(Tail(content))

\* C6: AnthropicAdapter.complete returns the texts of the response's
\* text-typed blocks, in order and without separator; other blocks add
\* nothing, and a response without text blocks gives the empty string.
C6_TextBlocksConcatenated ==
    Sent("AnthropicAdapter")
        => LET content == Get(call.resp).content IN
           /\ call.result = Some(ConcatTextBlocks(content))
           /\ (\A k \in 1..Len(content) : content[k].type # "text")
                 => call.result = Some("")

C6_Witness ==
    /\ Sent("AnthropicAdapter")
    /\ \E k \in 1..Len(Get(call.resp).content) :
          Get(call.resp).content[k].type = "tool_use"
    /\ \E k \in 1..Len(Get(call.resp).content) :
          Get(call.resp).content[k] = TextBlock("b")
    /\ call.result = Some("b")

\* C7: constructing a GoogleGeminiAdapter without the library raises the
\* dependency error, with the library but without a non-empty API key the
\* credential error, and without both the dependency error; a failed
\* construction creates no vendor client and leaves no instance, so every
\* GoogleGeminiAdapter instance holds a non-empty API key.
C7_GeminiConstruction ==
    /\ (call.op = "new" /\ call.cls = "GoogleGeminiAdapter")
          => LET keyless == call.args.api_key \in {None, Some("")} IN
             /\ ~genai => call.raised = "ImportError"
             /\ (genai /\ keyless) => call.raised = "ValueError"
             /\ (genai /\ ~keyless) => call.raised = "None"
             /\ call.raised # "None"
                   => (~call.client /\ inst[call.self].cls = "none")
    /\ \A id \in DOMAIN inst :
          inst[id].cls = "GoogleGeminiAdapter"
              => (genai /\ inst[id].client \notin {None, Some("")})

C7_Witness ==
    /\ call.op = "new"
    /\ call.cls = "GoogleGeminiAdapter"
    /\ ~genai
    /\ call.args.api_key = Some("")
    /\ call.raised = "ImportError"
    /\ \E id \in DOMAIN inst : inst[id].cls = "OpenAIAdapter"

\* C8: every complete() call of an OpenAIAdapter or LocalAdapter goes out
\* with the API key, organization and base URL given to the constructor of
\* the instance it is called on (the library's default URL if none was
\* given), whatever other instances were built or used.
C8_CallsUseOwnConfiguration ==
    ((Sent("OpenAIAdapter") \/ Sent("LocalAdapter")))
        => LET given == inst[call.self].given
               sent == Get(call.sent)
           IN  /\ sent.api_key = given.api_key
               /\ sent.organization = given.organization
               /\ sent.api_base = IF given.base_url = None
                                  THEN OpenAIDefaults.api_base
                                  ELSE given.base_url

====
